---- MODULE Spec2Model ----
(***************************************************************************)
(* Model of StrategyGenerator_V2                                           *)
(* (colossalai/auto_parallel/solver/strategy/strategy_generator.py).       *)
(*                                                                         *)
(* One generator instance serves one operation: it holds op_data and       *)
(* device_mesh, builds ShardingSpec objects (to_sharding_spec_mapping),    *)
(* CommSpec objects (get_communication_spec), assembles a strategy         *)
(* (get_sharding_strategy) and prices it (update_communication_cost,       *)
(* _compute_size_in_bytes, and the two abstract cost hooks).               *)
(*                                                                         *)
(* Python objects are mutable and shared by reference.  A ShardingSpec is  *)
(* identified by the operand name it was built for; the variable           *)
(* sharding_spec_mapping is the store of these objects, and both the       *)
(* strategy's sharding_specs and every CommSpec refer to them by name, so  *)
(* an assignment to sharding_spec.device_mesh is seen through every alias. *)
(* A Python dict is a sequence of [k, v] entries in insertion order.       *)
(* Grid axes and tensor dimensions are numbered from 0 as in the code;     *)
(* TLA+ sequences are indexed from 1, hence the "+ 1" on each access.      *)
(***************************************************************************)
EXTENDS Integers, Sequences, FiniteSets, TLC

VARIABLES
    op_data,                      \* self.op_data: name -> OperationData
    device_mesh,                  \* self.device_mesh: axis sizes of the grid
    pc,                           \* position of the variant's generate() pipeline
    sharding_spec_mapping,        \* the ShardingSpec objects, by operand name
    communication_action_mapping, \* dict name -> CommSpec being assembled
    strategy,                     \* the ShardingStrategy_V2 object
    err,                          \* the exception raised by the last call
    lastOp,                       \* the service called last
    lastArgs,                     \* its arguments
    lastResult,                   \* the size the last call returned, 0 for the other calls
    costShape,                    \* per operand, the per-device shape last used for costing
    nCommSpecCalls,               \* number of get_communication_spec calls made
    nCostCalls,                   \* number of cost-phase calls made
    nUpdateCommCalls              \* number of update_communication_cost calls made

vars == <<op_data, device_mesh, pc, sharding_spec_mapping,
          communication_action_mapping, strategy, err, lastOp, lastArgs,
          lastResult, costShape, nCommSpecCalls, nCostCalls, nUpdateCommCalls>>

----------------------------------------------------------------------------
(* Bounds of the model *)

MaxCommSpecCalls == 2
MaxCostCalls == 2

----------------------------------------------------------------------------
(* Input domains *)

\* the operand names the generator registers in op_data
OpNames == {"input", "output"}

\* a name no operand is registered under
UnknownName == "other"

\* device grids (axis sizes)
Grids == {<<2, 2>>, <<4, 8>>}

\* the operand descriptors: logical shape and element byte size of the dtype
OperandChoices ==
    { ("input"  :> [logical_shape |-> <<8, 16>>, elem_size |-> 4]) @@
      ("output" :> [logical_shape |-> <<4, 6>>,  elem_size |-> 2]),
      ("input"  :> [logical_shape |-> <<4, 6>>,  elem_size |-> 2]) @@
      ("output" :> [logical_shape |-> <<8, 16>>, elem_size |-> 4]) }

EmptyDict == [d \in {} |-> <<>>]

\* dim_partition_dict values: tensor dimension -> list of grid axes
PartitionChoices ==
    { EmptyDict,
      (1 :> <<0>>),
      (0 :> <<0>>) @@ (1 :> <<1>>),
      (0 :> <<0, 1>>) }

\* the mappings handed to to_sharding_spec_mapping: one operand, two
\* operands, or a registered operand and a name that is not registered
MappingChoices ==
    [{"input"} -> PartitionChoices]
    \cup { m \in [{"input", "output"} -> PartitionChoices] :
             m["output"] \in {EmptyDict, (0 :> <<0>>) @@ (1 :> <<1>>)} }
    \cup { m \in [{"input", UnknownName} -> PartitionChoices] :
             m[UnknownName] = EmptyDict }

\* CollectiveCommPattern members; the last one is not priced by the generator
Patterns == {"REDUCE_FWD_IDENTITY_BWD", "IDENTITY_FWD_ALLREDUCE_BWD",
             "ALLGATHER_FWD_SPLIT_BWD"}

\* logical_process_axis: Union[int, List[int]].  An int i is
\* [isList |-> FALSE, axes |-> <<i>>], a list is [isList |-> TRUE, axes |-> it].
AxisInt(i) == [isList |-> FALSE, axes |-> <<i>>]

AxisList(s) == [isList |-> TRUE, axes |-> s]

AxisChoices == {AxisInt(1), AxisList(<<0, 1>>), AxisList(<<0>>)}

----------------------------------------------------------------------------
(* Data types *)

\* TrainCycleItem(fwd, bwd); an attribute that is still None has set = FALSE
TrainCycleItem(f, b) == [set |-> TRUE, fwd |-> f, bwd |-> b]

NoCost == [set |-> FALSE, fwd |-> 0, bwd |-> 0]

\* CommSpec(comm_pattern, sharding_spec, logical_process_axis); sharding_spec
\* is the reference (operand name) of the ShardingSpec object
CommSpec(pattern, ref, axis) ==
    [comm_pattern |-> pattern, sharding_spec |-> ref, logical_process_axis |-> axis]

\* ShardingSpec(device_mesh, entire_shape, dim_partition_dict)
ShardingSpec(mesh, shape, dpd) ==
    [device_mesh |-> mesh, entire_shape |-> shape, dim_partition_dict |-> dpd]

\* the strategy before any factory call
NoStrategy ==
    [exists |-> FALSE, name |-> "", sharding_specs |-> <<>>,
     communication_actions |-> [present |-> FALSE, entries |-> <<>>],
     communication_cost |-> NoCost, compute_cost |-> NoCost,
     memory_cost |-> NoCost]

\* ShardingStrategy_V2(name, sharding_specs, communication_actions): the cost
\* attributes keep their default None
ShardingStrategy_V2(name, specs, actions) ==
    [exists |-> TRUE, name |-> name, sharding_specs |-> specs,
     communication_actions |-> actions,
     communication_cost |-> NoCost, compute_cost |-> NoCost,
     memory_cost |-> NoCost]

----------------------------------------------------------------------------
(* Helpers on sequences and dicts *)

RECURSIVE SeqProd(_)
SeqProd(s) == IF s = <<>> THEN 1 ELSE Head(s) * SeqProd(Tail(s))

Keys(entries) == {entries[i].k : i \in 1..Len(entries)}

\* dict[key] for a key that is present
Lookup(entries, key) ==
    entries[CHOOSE i \in 1..Len(entries) : entries[i].k = key].v

\* dict[key] = value: replaces the value in place or appends a new entry
DictSet(entries, key, value) ==
    IF key \in Keys(entries)
    THEN [i \in 1..Len(entries) |->
            IF entries[i].k = key THEN [k |-> key, v |-> value] ELSE entries[i]]
    ELSE Append(entries, [k |-> key, v |-> value])

----------------------------------------------------------------------------
(* DeviceMesh and ShardingSpec *)

\* DeviceMesh.flatten(): a new grid with one axis of the product of all sizes
flatten(mesh) == <<SeqProd(mesh)>>

\* the grid sizes of the axes a dimension is sharded over
MeshList(spec, dim) ==
    [i \in 1..Len(spec.dim_partition_dict[dim]) |->
        spec.device_mesh[spec.dim_partition_dict[dim][i] + 1]]

AxesExist(spec) ==
    \A dim \in DOMAIN spec.dim_partition_dict :
        \A i \in 1..Len(spec.dim_partition_dict[dim]) :
            spec.dim_partition_dict[dim][i] < Len(spec.device_mesh)

DividesEvenly(spec) ==
    \A dim \in DOMAIN spec.dim_partition_dict :
        spec.entire_shape[dim + 1] % SeqProd(MeshList(spec, dim)) = 0

\* ShardingSpec.get_sharded_shape_per_device()
get_sharded_shape_per_device(spec) ==
    IF ~AxesExist(spec) THEN [err |-> "IndexError", shape |-> <<>>]
    ELSE IF ~DividesEvenly(spec) THEN [err |-> "NonDivisibleShard", shape |-> <<>>]
    ELSE [err |-> "none",
          shape |-> [d \in 1..Len(spec.entire_shape) |->
                        IF (d - 1) \in DOMAIN spec.dim_partition_dict
                        THEN spec.entire_shape[d] \div SeqProd(MeshList(spec, d - 1))
                        ELSE spec.entire_shape[d]]]

----------------------------------------------------------------------------
(* to_sharding_spec_mapping *)

\* the body of the loop: looks the operand up and builds its ShardingSpec
MakeShardingSpecFirstOperand(self_op_data, self_device_mesh, op_data_name, dim_partition_dict) ==
    ShardingSpec(self_device_mesh, self_op_data["input"].logical_shape,
                 dim_partition_dict)

MakeShardingSpec(self_op_data, self_device_mesh, op_data_name, dim_partition_dict) ==
    ShardingSpec(self_device_mesh, self_op_data[op_data_name].logical_shape,
                 dim_partition_dict)

\* self.op_data[op_data_name] raises KeyError for a name that is not
\* registered; results is a local, so nothing is returned then
to_sharding_spec_mapping(self_op_data, self_device_mesh, mapping) ==
    IF \E n \in DOMAIN mapping : n \notin DOMAIN self_op_data
    THEN [err |-> "KeyError", results |-> EmptyDict]
    ELSE [err |-> "none",
          results |-> [n \in DOMAIN mapping |->
                          MakeShardingSpec(self_op_data, self_device_mesh, n, mapping[n])]]

----------------------------------------------------------------------------
(* replace_op_name_with_op_data and get_sharding_strategy *)

\* rekeys a dict from operand names to the OperationData objects (which the
\* model identifies by their name); KeyError for an unregistered name
replace_op_name_with_op_data(self_op_data, entries) ==
    IF \E i \in 1..Len(entries) : entries[i].k \notin DOMAIN self_op_data
    THEN [err |-> "KeyError", results |-> <<>>]
    ELSE [err |-> "none", results |-> entries]

\* the sharding specs as a dict name -> reference of the ShardingSpec object
SpecRefs(specs) ==
    LET RECURSIVE Build(_)
        Build(S) == IF S = {} THEN <<>>
                    ELSE LET n == CHOOSE x \in S : TRUE
                         IN  Append(Build(S \ {n}), [k |-> n, v |-> n])
    IN  Build(DOMAIN specs)

get_sharding_strategy(self_op_data, name, specs, actions) ==
    LET sharding_specs        == replace_op_name_with_op_data(self_op_data, SpecRefs(specs))
        communication_actions == replace_op_name_with_op_data(self_op_data, actions)
    IN  IF sharding_specs.err # "none"
        THEN [err |-> sharding_specs.err, strategy |-> NoStrategy]
        ELSE IF communication_actions.err # "none"
        THEN [err |-> communication_actions.err, strategy |-> NoStrategy]
        ELSE [err |-> "none",
              strategy |-> ShardingStrategy_V2(name, sharding_specs.results,
                              [present |-> TRUE,
                               entries |-> communication_actions.results])]

----------------------------------------------------------------------------
(* get_communication_spec *)

\* isinstance(logical_process_axis, list) and len(logical_process_axis) == 2
TwoAxes(axis) == axis.isList /\ Len(axis.axes) = 2

get_communication_spec_keep_axis(specs, ref, communication_pattern, logical_process_axis) ==
    IF TwoAxes(logical_process_axis)
    THEN [specs |-> [specs EXCEPT ![ref].device_mesh = flatten(@)],
          comm_spec |-> CommSpec(communication_pattern, ref, logical_process_axis)]
    ELSE [specs |-> specs,
          comm_spec |-> CommSpec(communication_pattern, ref, logical_process_axis)]

\* the ShardingSpec object itself gets the flattened grid: the assignment
\* is seen by every holder of that object
get_communication_spec(specs, ref, communication_pattern, logical_process_axis) ==
    IF TwoAxes(logical_process_axis)
    THEN [specs |-> [specs EXCEPT ![ref].device_mesh = flatten(@)],
          comm_spec |-> CommSpec(communication_pattern, ref, AxisInt(0))]
    ELSE [specs |-> specs,
          comm_spec |-> CommSpec(communication_pattern, ref, logical_process_axis)]

----------------------------------------------------------------------------
(* update_communication_cost *)

\* CommSpec.get_comm_cost(): the number of elements the action communicates,
\* taken over the per-device shape of the layout it acts on
get_comm_cost(specs, comm_spec) ==
    LET sharded == get_sharded_shape_per_device(specs[comm_spec.sharding_spec])
    IN  IF sharded.err # "none" THEN [err |-> sharded.err, n |-> 0]
        ELSE [err |-> "none", n |-> SeqProd(sharded.shape)]

\* _compute_and_add: adds the cost of one action to the accumulator comm_cost
compute_and_add(self_op_data, specs, operand, comm_spec, comm_cost) ==
    LET num_ele_in_comm     == get_comm_cost(specs, comm_spec)
        size_per_elem_bytes == self_op_data[operand].elem_size
        cost                == size_per_elem_bytes * num_ele_in_comm.n
    IN  IF num_ele_in_comm.err # "none"
        THEN [err |-> num_ele_in_comm.err, comm_cost |-> comm_cost]
        ELSE IF comm_spec.comm_pattern = "REDUCE_FWD_IDENTITY_BWD"
        THEN [err |-> "none", comm_cost |-> [comm_cost EXCEPT !.fwd = @ + cost]]
        ELSE IF comm_spec.comm_pattern = "IDENTITY_FWD_ALLREDUCE_BWD"
        THEN [err |-> "none", comm_cost |-> [comm_cost EXCEPT !.fwd = @ + cost]]
        ELSE [err |-> "ValueError", comm_cost |-> comm_cost]

\* Unpacking one OperationData object into the two targets `operand,
\* comm_spec`: an OperationData is a record of a name, a role, a shape and a
\* dtype, not a pair, so the unpacking raises.
UnpackOperationData(key) ==
    [err |-> "TypeError", operand |-> key,
     comm_spec |-> CommSpec("", key, AxisInt(0))]

\* What `for operand, comm_spec in strategy.communication_actions` binds at
\* iteration i: iterating a dict yields its keys alone, and each key (an
\* OperationData) is then unpacked into the two loop targets.
LoopTargets(entries, i) == UnpackOperationData(entries[i].k)

\* the loop over the actions, from entry i on
RECURSIVE CommLoop(_, _, _, _, _)
CommLoop(self_op_data, specs, entries, i, comm_cost) ==
    IF i > Len(entries) THEN [err |-> "none", comm_cost |-> comm_cost]
    ELSE LET t == LoopTargets(entries, i)
         IN  IF t.err # "none" THEN [err |-> t.err, comm_cost |-> comm_cost]
             ELSE LET r == compute_and_add(self_op_data, specs, t.operand,
                                           t.comm_spec, comm_cost)
                  IN  IF r.err # "none" THEN r
                      ELSE CommLoop(self_op_data, specs, entries, i + 1, r.comm_cost)

\* a variant of update_communication_cost that walks the (operand, action)
\* pairs and accumulates onto the cost the strategy already carries
update_communication_cost_accumulating(self_op_data, specs, s) ==
    LET start == IF s.communication_cost.set THEN s.communication_cost
                 ELSE TrainCycleItem(0, 0)
        RECURSIVE Walk(_, _)
        Walk(i, acc) ==
            IF i > Len(s.communication_actions.entries)
            THEN [err |-> "none", comm_cost |-> acc]
            ELSE LET e == s.communication_actions.entries[i]
                     r == compute_and_add(self_op_data, specs, e.k, e.v, acc)
                 IN  IF r.err # "none" THEN r ELSE Walk(i + 1, r.comm_cost)
        r == IF s.communication_actions.present THEN Walk(1, start)
             ELSE [err |-> "none", comm_cost |-> start]
    IN  IF r.err # "none" THEN [err |-> r.err, strategy |-> s]
        ELSE [err |-> "none",
              strategy |-> [s EXCEPT !.communication_cost = r.comm_cost]]

\* a variant that walks the (operand, action) pairs and posts the cost of an
\* IDENTITY_FWD_ALLREDUCE_BWD action to the backward total
update_communication_cost_posting_bwd(self_op_data, specs, s) ==
    LET RECURSIVE Walk(_, _)
        Walk(i, acc) ==
            IF i > Len(s.communication_actions.entries)
            THEN [err |-> "none", comm_cost |-> acc]
            ELSE LET e == s.communication_actions.entries[i]
                     n == get_comm_cost(specs, e.v)
                     c == self_op_data[e.k].elem_size * n.n
                 IN  IF n.err # "none" THEN [err |-> n.err, comm_cost |-> acc]
                     ELSE IF e.v.comm_pattern = "REDUCE_FWD_IDENTITY_BWD"
                     THEN Walk(i + 1, [acc EXCEPT !.fwd = @ + c])
                     ELSE IF e.v.comm_pattern = "IDENTITY_FWD_ALLREDUCE_BWD"
                     THEN Walk(i + 1, [acc EXCEPT !.bwd = @ + c])
                     ELSE [err |-> "ValueError", comm_cost |-> acc]
        r == IF s.communication_actions.present THEN Walk(1, TrainCycleItem(0, 0))
             ELSE [err |-> "none", comm_cost |-> TrainCycleItem(0, 0)]
    IN  IF r.err # "none" THEN [err |-> r.err, strategy |-> s]
        ELSE [err |-> "none",
              strategy |-> [s EXCEPT !.communication_cost = r.comm_cost]]

\* a variant that also clears the other two accumulators
update_communication_cost_clearing(self_op_data, specs, s) ==
    LET r == IF s.communication_actions.present
             THEN CommLoop(self_op_data, specs, s.communication_actions.entries,
                           1, TrainCycleItem(0, 0))
             ELSE [err |-> "none", comm_cost |-> TrainCycleItem(0, 0)]
    IN  IF r.err # "none" THEN [err |-> r.err, strategy |-> s]
        ELSE [err |-> "none",
              strategy |-> [s EXCEPT !.communication_cost = r.comm_cost,
                                     !.compute_cost = NoCost,
                                     !.memory_cost = NoCost]]

\* update_communication_cost: a fresh accumulator, the loop when the
\* actions are not None, then the assignment to strategy.communication_cost;
\* an exception leaves before the assignment
update_communication_cost(self_op_data, specs, s) ==
    LET r == IF s.communication_actions.present
             THEN CommLoop(self_op_data, specs, s.communication_actions.entries,
                           1, TrainCycleItem(0, 0))
             ELSE [err |-> "none", comm_cost |-> TrainCycleItem(0, 0)]
    IN  IF r.err # "none" THEN [err |-> r.err, strategy |-> s]
        ELSE [err |-> "none",
              strategy |-> [s EXCEPT !.communication_cost = r.comm_cost]]

----------------------------------------------------------------------------
(* _compute_size_in_bytes *)

\* reduce(operator.mul, sharded_shape): a left fold without initial value
RECURSIVE ReduceMul(_)
ReduceMul(s) ==
    IF Len(s) = 1 THEN s[1]
    ELSE ReduceMul(SubSeq(s, 1, Len(s) - 1)) * s[Len(s)]

SizeInElements(sharded_shape, size_per_elem_bytes) == ReduceMul(sharded_shape)

\* reduce(operator.mul, sharded_shape) * size_per_elem_bytes
SizeInBytes(sharded_shape, size_per_elem_bytes) ==
    ReduceMul(sharded_shape) * size_per_elem_bytes

ShardedShapeOnGeneratorMesh(self_device_mesh, specs, s, key) ==
    get_sharded_shape_per_device(
        [specs[Lookup(s.sharding_specs, key)] EXCEPT !.device_mesh = self_device_mesh])

\* strategy.sharding_specs[op_data].get_sharded_shape_per_device()
ShardedShapeOf(self_device_mesh, specs, s, key) ==
    get_sharded_shape_per_device(specs[Lookup(s.sharding_specs, key)])

compute_size_in_bytes(self_op_data, self_device_mesh, specs, s, key) ==
    IF key \notin DOMAIN self_op_data \/ key \notin Keys(s.sharding_specs)
    THEN [err |-> "KeyError", shape |-> <<>>, size |-> 0]
    ELSE LET sharded == ShardedShapeOf(self_device_mesh, specs, s, key)
         IN  IF sharded.err # "none"
             THEN [err |-> sharded.err, shape |-> <<>>, size |-> 0]
             ELSE [err |-> "none", shape |-> sharded.shape,
                   size |-> SizeInBytes(sharded.shape, self_op_data[key].elem_size)]

----------------------------------------------------------------------------
(* The abstract cost hooks, as a variant implements them *)

\* the sum of an operator f over the operands of the strategy, or the first
\* error it meets
SumOverOperands(self_op_data, self_device_mesh, specs, s, bytes) ==
    LET RECURSIVE Sum(_)
        Sum(i) ==
            IF i > Len(s.sharding_specs) THEN [err |-> "none", total |-> 0]
            ELSE LET one == compute_size_in_bytes(self_op_data, self_device_mesh,
                                                  specs, s, s.sharding_specs[i].k)
                     rest == Sum(i + 1)
                 IN  IF one.err # "none" THEN [err |-> one.err, total |-> 0]
                     ELSE IF rest.err # "none" THEN rest
                     ELSE [err |-> "none",
                           total |-> rest.total +
                               (IF bytes THEN one.size ELSE SeqProd(one.shape))]
    IN  Sum(1)

\* update_memory_cost: the bytes of every sharded operand, by the size helper
update_memory_cost(self_op_data, self_device_mesh, specs, s) ==
    LET r == SumOverOperands(self_op_data, self_device_mesh, specs, s, TRUE)
    IN  IF r.err # "none" THEN [err |-> r.err, strategy |-> s]
        ELSE [err |-> "none",
              strategy |-> [s EXCEPT !.memory_cost = TrainCycleItem(r.total, r.total)]]

\* update_compute_cost: an operation count from the per-device shapes
update_compute_cost(self_op_data, self_device_mesh, specs, s) ==
    LET r == SumOverOperands(self_op_data, self_device_mesh, specs, s, FALSE)
    IN  IF r.err # "none" THEN [err |-> r.err, strategy |-> s]
        ELSE [err |-> "none",
              strategy |-> [s EXCEPT !.compute_cost = TrainCycleItem(r.total, r.total)]]

----------------------------------------------------------------------------
(* The state machine *)

StrategyName == "S0R = S0R x RR"

NoArgs ==
    [mapping |-> EmptyDict, ref |-> "", pattern |-> "", axis |-> AxisInt(0),
     key |-> ""]

NoShapes == [n \in OpNames |-> <<>>]

\* __init__: the generator stores the operand mapping and the device grid
Init ==
    /\ op_data \in OperandChoices
    /\ device_mesh \in Grids
    /\ pc = "start"
    /\ sharding_spec_mapping = EmptyDict
    /\ communication_action_mapping = <<>>
    /\ strategy = NoStrategy
    /\ err = "none"
    /\ lastOp = "__init__"
    /\ lastArgs = NoArgs
    /\ lastResult = 0
    /\ costShape = NoShapes
    /\ nCommSpecCalls = 0
    /\ nCostCalls = 0
    /\ nUpdateCommCalls = 0

ToShardingSpecMapping ==
    /\ pc = "start"
    /\ \E mapping \in MappingChoices :
         LET r == to_sharding_spec_mapping(op_data, device_mesh, mapping)
         IN  /\ err' = r.err
             /\ sharding_spec_mapping' = r.results
             /\ pc' = IF r.err = "none" THEN "layouts" ELSE "failed"
             /\ lastArgs' = [NoArgs EXCEPT !.mapping = mapping]
    /\ lastOp' = "to_sharding_spec_mapping"
    /\ UNCHANGED <<op_data, device_mesh, communication_action_mapping, strategy,
                   lastResult, costShape, nCommSpecCalls, nCostCalls,
                   nUpdateCommCalls>>

\* the factory call, and the variant's storing of the action under the
\* operand whose layout it acts on
GetCommunicationSpec ==
    /\ pc = "layouts"
    /\ nCommSpecCalls < MaxCommSpecCalls
    /\ \E ref \in DOMAIN sharding_spec_mapping, pattern \in Patterns,
          axis \in AxisChoices :
         LET r == get_communication_spec(sharding_spec_mapping, ref, pattern, axis)
         IN  /\ sharding_spec_mapping' = r.specs
             /\ communication_action_mapping' =
                    DictSet(communication_action_mapping, ref, r.comm_spec)
             /\ lastArgs' = [NoArgs EXCEPT !.ref = ref, !.pattern = pattern,
                                           !.axis = axis]
    /\ err' = "none"
    /\ lastOp' = "get_communication_spec"
    /\ nCommSpecCalls' = nCommSpecCalls + 1
    /\ UNCHANGED <<op_data, device_mesh, pc, strategy, lastResult, costShape,
                   nCostCalls,
                   nUpdateCommCalls>>

\* the variant may name an operand in the action mapping that it never
\* registered: withUnknown
GetShardingStrategy ==
    /\ pc = "layouts"
    /\ \E withUnknown \in BOOLEAN :
         LET actions == IF withUnknown
                        THEN DictSet(communication_action_mapping, UnknownName,
                                     CommSpec("REDUCE_FWD_IDENTITY_BWD", "input",
                                              AxisInt(0)))
                        ELSE communication_action_mapping
             r == get_sharding_strategy(op_data, StrategyName,
                                        sharding_spec_mapping, actions)
         IN  /\ err' = r.err
             /\ strategy' = r.strategy
             /\ pc' = IF r.err = "none" THEN "assembled" ELSE "failed"
    /\ lastOp' = "get_sharding_strategy"
    /\ lastArgs' = NoArgs
    /\ UNCHANGED <<op_data, device_mesh, sharding_spec_mapping,
                   communication_action_mapping, lastResult, costShape,
                   nCommSpecCalls, nCostCalls,
                   nUpdateCommCalls>>

\* a variant that needs no communication builds the strategy without the
\* communication_actions argument, which then stays None
ConstructWithoutActions ==
    /\ pc = "layouts"
    /\ communication_action_mapping = <<>>
    /\ strategy' = ShardingStrategy_V2(StrategyName, SpecRefs(sharding_spec_mapping),
                                       [present |-> FALSE, entries |-> <<>>])
    /\ pc' = "assembled"
    /\ err' = "none"
    /\ lastOp' = "ShardingStrategy_V2"
    /\ lastArgs' = NoArgs
    /\ UNCHANGED <<op_data, device_mesh, sharding_spec_mapping,
                   communication_action_mapping, lastResult, costShape,
                   nCommSpecCalls, nCostCalls,
                   nUpdateCommCalls>>

UpdateCommunicationCost ==
    /\ pc = "assembled"
    /\ nCostCalls < MaxCostCalls
    /\ LET r == update_communication_cost(op_data, sharding_spec_mapping, strategy)
       IN  /\ err' = r.err
           /\ strategy' = r.strategy
    /\ lastOp' = "update_communication_cost"
    /\ lastArgs' = NoArgs
    /\ lastResult' = 0
    /\ nCostCalls' = nCostCalls + 1
    /\ UNCHANGED <<op_data, device_mesh, pc, sharding_spec_mapping,
                   communication_action_mapping,  costShape,
                   nCommSpecCalls>>
    /\ nUpdateCommCalls' = nUpdateCommCalls + 1

ComputeSizeInBytes ==
    /\ pc = "assembled"
    /\ nCostCalls < MaxCostCalls
    /\ \E key \in OpNames :
         LET r == compute_size_in_bytes(op_data, device_mesh,
                                        sharding_spec_mapping, strategy, key)
         IN  /\ err' = r.err
             /\ lastResult' = r.size
             /\ costShape' = IF r.err = "none"
                             THEN [costShape EXCEPT ![key] = r.shape]
                             ELSE costShape
             /\ lastArgs' = [NoArgs EXCEPT !.key = key]
    /\ lastOp' = "_compute_size_in_bytes"
    /\ nCostCalls' = nCostCalls + 1
    /\ UNCHANGED <<op_data, device_mesh, pc, sharding_spec_mapping,
                   communication_action_mapping, strategy, nCommSpecCalls,
                   nUpdateCommCalls>>

\* the shapes the size helper used for every operand of the strategy
ShapesUsed(s) ==
    [n \in OpNames |->
        IF n \in Keys(s.sharding_specs)
        THEN ShardedShapeOf(device_mesh, sharding_spec_mapping, s, n).shape
        ELSE costShape[n]]

UpdateMemoryCost ==
    /\ pc = "assembled"
    /\ nCostCalls < MaxCostCalls
    /\ LET r == update_memory_cost(op_data, device_mesh, sharding_spec_mapping,
                                   strategy)
       IN  /\ err' = r.err
           /\ strategy' = r.strategy
           /\ costShape' = IF r.err = "none" THEN ShapesUsed(strategy) ELSE costShape
    /\ lastOp' = "update_memory_cost"
    /\ lastArgs' = NoArgs
    /\ lastResult' = 0
    /\ nCostCalls' = nCostCalls + 1
    /\ UNCHANGED <<op_data, device_mesh, pc, sharding_spec_mapping,
                   communication_action_mapping,  nCommSpecCalls,
                   nUpdateCommCalls>>

UpdateComputeCost ==
    /\ pc = "assembled"
    /\ nCostCalls < MaxCostCalls
    /\ LET r == update_compute_cost(op_data, device_mesh, sharding_spec_mapping,
                                    strategy)
       IN  /\ err' = r.err
           /\ strategy' = r.strategy
    /\ lastOp' = "update_compute_cost"
    /\ lastArgs' = NoArgs
    /\ lastResult' = 0
    /\ nCostCalls' = nCostCalls + 1
    /\ UNCHANGED <<op_data, device_mesh, pc, sharding_spec_mapping,
                   communication_action_mapping,  costShape,
                   nCommSpecCalls,
                   nUpdateCommCalls>>

\* generate() hands the strategy to the caller
Return ==
    /\ pc = "assembled"
    /\ pc' = "returned"
    /\ lastOp' = "return"
    /\ lastArgs' = NoArgs
    /\ lastResult' = 0
    /\ UNCHANGED <<op_data, device_mesh, sharding_spec_mapping,
                   communication_action_mapping, strategy, err, 
                   costShape, nCommSpecCalls, nCostCalls,
                   nUpdateCommCalls>>

Next ==
    \/ ToShardingSpecMapping
    \/ GetCommunicationSpec
    \/ GetShardingStrategy
    \/ ConstructWithoutActions
    \/ UpdateCommunicationCost
    \/ ComputeSizeInBytes
    \/ UpdateMemoryCost
    \/ UpdateComputeCost
    \/ Return

Spec == Init /\ [][Next]_vars

----------------------------------------------------------------------------
(* Properties *)

SupportedPatterns == {"REDUCE_FWD_IDENTITY_BWD", "IDENTITY_FWD_ALLREDUCE_BWD"}

\* the actions of the strategy, as (operand, action) entries
Actions == strategy.communication_actions.entries

\* the cost of one (operand, action) entry: communicated element count times
\* the element byte size of the operand
EntryCost(e) == op_data[e.k].elem_size * get_comm_cost(sharding_spec_mapping, e.v).n

\* every action of the strategy has a communicated volume
ActionsPriceable ==
    \A i \in 1..Len(Actions) :
        get_comm_cost(sharding_spec_mapping, Actions[i].v).err = "none"

\* C1 (additivity): after update_communication_cost on a strategy holding two
\* actions of the two forward-contributing patterns, the call has completed
\* and communication_cost.fwd is the sum of the two actions' costs, each the
\* communicated element count times the operand's element byte size.
C1_Additivity ==
    ( /\ lastOp = "update_communication_cost"
      /\ strategy.communication_actions.present
      /\ Len(Actions) = 2
      /\ \A i \in 1..2 : Actions[i].v.comm_pattern \in SupportedPatterns
      /\ ActionsPriceable )
    => /\ err = "none"
       /\ strategy.communication_cost.set
       /\ strategy.communication_cost.fwd = EntryCost(Actions[1]) + EntryCost(Actions[2])

\* C2 (unknown pattern rejection): update_communication_cost on a strategy
\* with an action of a pattern outside the two priced ones fails with the
\* unsupported-pattern error (ValueError) and leaves communication_cost as
\* it was before the call.
C2_UnknownPatternRejected ==
    [][ ( /\ lastOp' = "update_communication_cost"
          /\ strategy.communication_actions.present
          /\ \E i \in 1..Len(Actions) : Actions[i].v.comm_pattern \notin SupportedPatterns
          /\ ActionsPriceable )
        => /\ err' = "ValueError"
           /\ strategy'.communication_cost = strategy.communication_cost ]_vars

\* C3 (flatten correctness): get_communication_spec with a list of exactly
\* two axes on a layout over a 2-axis grid (a, b) leaves the layout of the
\* returned action with the one-axis grid <<a * b>> and records axis 0;
\* with an int axis (or a list that is no pair) the layout's grid and the
\* recorded axis are the ones passed in.  No other layout is touched.
C3_FlattenCorrectness ==
    [][ lastOp' = "get_communication_spec" =>
        LET ref    == lastArgs'.ref
            axis   == lastArgs'.axis
            before == sharding_spec_mapping[ref].device_mesh
            after  == sharding_spec_mapping'[ref].device_mesh
            action == Lookup(communication_action_mapping', ref)
        IN  /\ action.sharding_spec = ref
            /\ action.comm_pattern = lastArgs'.pattern
            /\ (axis.isList /\ Len(axis.axes) = 2 /\ Len(before) = 2)
                  => /\ after = <<before[1] * before[2]>>
                     /\ action.logical_process_axis = AxisInt(0)
            /\ (axis.isList /\ Len(axis.axes) = 2 /\ before = <<4, 8>>)
                  => after = <<32>>
            /\ ~(axis.isList /\ Len(axis.axes) = 2)
                  => /\ after = before
                     /\ action.logical_process_axis = axis
            /\ \A n \in DOMAIN sharding_spec_mapping \ {ref} :
                  sharding_spec_mapping'[n] = sharding_spec_mapping[n]
            /\ [sharding_spec_mapping'[ref] EXCEPT !.device_mesh = before]
                  = sharding_spec_mapping[ref] ]_vars

C3_Witness ==
    /\ lastOp = "get_communication_spec"
    /\ lastArgs.axis = AxisList(<<0, 1>>)
    /\ device_mesh = <<4, 8>>
    /\ nCommSpecCalls = 1
    /\ sharding_spec_mapping[lastArgs.ref].device_mesh = <<32>>
    /\ Lookup(communication_action_mapping, lastArgs.ref).logical_process_axis = AxisInt(0)

C5_LayoutConstruction ==
    [][ lastOp' = "to_sharding_spec_mapping" =>
        LET mapping == lastArgs'.mapping
        IN  /\ op_data' = op_data
            /\ device_mesh' = device_mesh
            /\ IF DOMAIN mapping \subseteq DOMAIN op_data
               THEN /\ err' = "none"
                    /\ DOMAIN sharding_spec_mapping' = DOMAIN mapping
                    /\ \A n \in DOMAIN mapping :
                         sharding_spec_mapping'[n] =
                            [device_mesh |-> device_mesh,
                             entire_shape |-> op_data[n].logical_shape,
                             dim_partition_dict |-> mapping[n]]
               ELSE /\ err' = "KeyError"
                    /\ DOMAIN sharding_spec_mapping' = {} ]_vars

C5_Witness ==
    /\ lastOp = "to_sharding_spec_mapping"
    /\ err = "none"
    /\ DOMAIN sharding_spec_mapping = {"input", "output"}
    /\ sharding_spec_mapping["output"].entire_shape = op_data["output"].logical_shape
    /\ sharding_spec_mapping["output"].entire_shape
          # sharding_spec_mapping["input"].entire_shape
    /\ sharding_spec_mapping["input"].dim_partition_dict = (1 :> <<0>>)

\* C6 (byte-size helper): whenever the layout of operand `key` in the strategy
\* divides every partitioned dimension evenly, _compute_size_in_bytes returns
\* the product of the per-device dimensions (each logical dimension divided
\* by the product of the sizes of its grid axes) times the element byte
\* size; logical shape [8, 16] with 4-byte elements and per-device shape
\* [8, 4] gives 128.
C6_ByteSize ==
    ( /\ lastOp = "_compute_size_in_bytes"
      /\ lastArgs.key \in Keys(strategy.sharding_specs) )
    => LET key    == lastArgs.key
           layout == sharding_spec_mapping[Lookup(strategy.sharding_specs, key)]
           shape  == op_data[key].logical_shape
           parts(dim) ==
               IF dim \in DOMAIN layout.dim_partition_dict
               THEN SeqProd([i \in 1..Len(layout.dim_partition_dict[dim]) |->
                               layout.device_mesh[layout.dim_partition_dict[dim][i] + 1]])
               ELSE 1
       IN  (AxesExist(layout) /\ shape[1] % parts(0) = 0 /\ shape[2] % parts(1) = 0)
           => /\ err = "none"
              /\ lastResult = (shape[1] \div parts(0)) * (shape[2] \div parts(1))
                                 * op_data[key].elem_size
              /\ ( /\ shape = <<8, 16>>
                   /\ op_data[key].elem_size = 4
                   /\ parts(0) = 1
                   /\ parts(1) = 4 ) => lastResult = 128

C6_Witness ==
    /\ lastOp = "_compute_size_in_bytes"
    /\ err = "none"
    /\ lastArgs.key = "input"
    /\ op_data["input"] = [logical_shape |-> <<8, 16>>, elem_size |-> 4]
    /\ costShape["input"] = <<8, 4>>
    /\ lastResult = 128

C8_AxesExist ==
    \A n \in DOMAIN sharding_spec_mapping : AxesExist(sharding_spec_mapping[n])

====
